---- MODULE Spec2Model ----
(***************************************************************************)
(* Model of wcs-deployment-utils:                                          *)
(*   assets/common/load_dialog_data.py       copy_dialog_data, _find_node  *)
(*   wcs_deployment_utils/entities/load_csv_as_entity_data.py              *)
(*                                            load_csv_as_entity_data      *)
(*                                                                         *)
(* Text is a sequence of one-character strings, so that str.lower() is     *)
(* computed character by character.  A Python value that may be None is    *)
(* None == << >> or Some(x) == << x >>.                                    *)
(***************************************************************************)
EXTENDS Integers, Sequences, FiniteSets, TLC

\* ------------------------------------------------------------------ bounds
\* Largest source export (number of dialog nodes).
MaxNodes == 3
\* Longest node list handed to _find_node on its own.
MaxLen == 2
\* The model keeps the first MaxImport entries of to_import.  A run whose
\* collection loop ends never holds more than MaxNodes entries.
MaxImport == MaxNodes + 2

\* ------------------------------------------------------------------ values
None == << >>
Some(x) == << x >>

Min(a, b) == IF a < b THEN a ELSE b

UpperToLower ==
    ("A" :> "a") @@ ("B" :> "b") @@ ("C" :> "c") @@ ("D" :> "d") @@
    ("E" :> "e") @@ ("F" :> "f") @@ ("G" :> "g") @@ ("H" :> "h") @@
    ("I" :> "i") @@ ("J" :> "j") @@ ("K" :> "k") @@ ("L" :> "l") @@
    ("M" :> "m") @@ ("N" :> "n") @@ ("O" :> "o") @@ ("P" :> "p") @@
    ("Q" :> "q") @@ ("R" :> "r") @@ ("S" :> "s") @@ ("T" :> "t") @@
    ("U" :> "u") @@ ("V" :> "v") @@ ("W" :> "w") @@ ("X" :> "x") @@
    ("Y" :> "y") @@ ("Z" :> "z")

\* str.lower(): every cased character replaced by its lowercase form.
Lower(s) ==
    [i \in 1..Len(s) |->
        IF s[i] \in DOMAIN UpperToLower THEN UpperToLower[s[i]] ELSE s[i]]

\* str(x): the text itself, and the text 'None' for None.
Str(opt) == IF opt = None THEN <<"N", "o", "n", "e">> ELSE opt[1]

\* Text literals of the source.
ROOT == <<"r", "o", "o", "t">>
SIBLING == <<"s", "i", "b", "l", "i", "n", "g">>
CHILD == <<"c", "h", "i", "l", "d">>

\* A dialog node of a workspace export.
Node(id, title, parent, prev, hasDigress) ==
    [dialog_node |-> id, title |-> title, parent |-> parent,
     previous_sibling |-> prev,
     digress_in |-> IF hasDigress THEN Some("returns") ELSE None,
     digress_out |-> IF hasDigress THEN Some("allow_all") ELSE None,
     digress_out_slots |-> IF hasDigress THEN Some("not_allowed") ELSE None]

\* ------------------------------------------------------------- _find_node
NoMatch == [kind |-> "none", idx |-> 0]
AttrError == [kind |-> "error", idx |-> 0]
Found(i) == [kind |-> "node", idx |-> i]

\* The condition of the loop body of _find_node on one node.
Matches(node, node_id) ==
    \/ Lower(Str(node.title)) = Lower(node_id[1])
    \/ Lower(Str(Some(node.dialog_node))) = Lower(node_id[1])

\* Variant of _find_node: the loop without its break, so the last match wins.
_find_node_last(node_id, dialog_nodes) ==
    IF node_id = Some(ROOT) THEN NoMatch
    ELSE IF dialog_nodes = << >> THEN NoMatch
    ELSE IF node_id = None THEN AttrError
    ELSE LET hits == {i \in 1..Len(dialog_nodes) : Matches(dialog_nodes[i], node_id)}
         IN  IF hits = {} THEN NoMatch
             ELSE Found(CHOOSE i \in hits : \A j \in hits : i >= j)

\* _find_node(node_id, dialog_nodes): None for the literal 'root'; otherwise
\* the first node whose title or id matches.  node_id = None passes the
\* comparison with 'root' and fails at node_id.lower() on the first node.
_find_node(node_id, dialog_nodes) ==
    IF node_id = Some(ROOT) THEN NoMatch
    ELSE IF dialog_nodes = << >> THEN NoMatch
    ELSE IF node_id = None THEN AttrError
    ELSE LET hits == {i \in 1..Len(dialog_nodes) : Matches(dialog_nodes[i], node_id)}
         IN  IF hits = {} THEN NoMatch
             ELSE Found(CHOOSE i \in hits : \A j \in hits : i <= j)

\* ------------------------------------------------------------------ inputs
Chars == <<"a", "b", "c", "d", "e", "f">>
Id(k) == <<Chars[k]>>
TitleOf(k) == IF k = 2 THEN None ELSE Some(<<"T", Chars[k]>>)

\* Parent maps of the forests on nodes 1..n (0: no parent).
ParentMaps(n) == {par \in [1..n -> 0..n] : \A i \in 1..n : par[i] < i}

SetMax(S) == CHOOSE x \in S : \A y \in S : y <= x

\* previous_sibling: the nearest earlier node with the same parent.
PrevOf(par, i) ==
    LET S == {j \in 1..(i - 1) : par[j] = par[i]}
    IN  IF S = {} THEN None ELSE Some(Id(SetMax(S)))

SourceNode(par, i) ==
    Node(Id(i), TitleOf(i),
         IF par[i] = 0 THEN None ELSE Some(Id(par[i])),
         PrevOf(par, i), i # 3)

\* The export lists the nodes in any order; the model takes two orders.
SourceList(n, par, rev) ==
    [k \in 1..n |-> SourceNode(par, IF rev THEN n + 1 - k ELSE k)]

SourceExports ==
    UNION {{SourceList(n, par, rev) : par \in ParentMaps(n), rev \in BOOLEAN} :
              n \in 1..MaxNodes}

\* Destination exports: an empty workspace, and one with a top-level node t,
\* its child u, and nodes a, b whose ids also occur in source exports.
TargetExports ==
    { << >>,
      << Node(<<"t">>, Some(<<"T", "o", "p">>), None, None, TRUE),
         Node(<<"u">>, None, Some(<<"t">>), None, FALSE),
         Node(<<"a">>, Some(<<"T", "a">>), None, Some(<<"t">>), TRUE),
         Node(<<"b">>, None, Some(<<"a">>), None, FALSE) >> }

RootNodeArgs ==
    {None, Some(<<"A">>), Some(<<"b">>), Some(<<"t", "c">>), Some(ROOT)}
TargetNodeArgs ==
    {Some(ROOT), Some(<<"T">>), Some(<<"u">>), Some(<<"A">>), Some(<<"b">>)}
ModeArgs ==
    {SIBLING, <<"S", "i", "b", "l", "i", "n", "g">>, CHILD,
     <<"C", "H", "I", "L", "D">>, <<"f", "i", "r", "s", "t">>}

\* Required arguments of load_csv_as_entity_data, in the order validated.
RequiredKeys ==
    <<"conversation_username", "conversation_password", "version",
      "workspace", "csv_file">>

\* Node lists and identifiers for _find_node taken alone.
FindNodes ==
    { Node(<<"n", "1">>, Some(<<"R", "o", "o", "t">>), None, None, FALSE),
      Node(<<"n", "2">>, None, None, None, FALSE),
      Node(<<"n", "o", "n", "e">>, Some(<<"H", "i">>), None, None, FALSE),
      Node(<<"N", "3">>, Some(<<"h", "I">>), None, None, FALSE) }
FindLists ==
    UNION {[1..n -> FindNodes] : n \in 0..MaxLen}
FindIds ==
    { ROOT, <<"R", "O", "O", "T">>, <<"n", "o", "n", "e">>, <<"N", "2">>,
      <<"n", "3">>, <<"h", "i">>, <<"z">> }

\* ------------------------------------------------------------------- state
VARIABLES
    op,               \* "copy", "load" or "find": the operation of this run
    pc,               \* position in the operation
    error,            \* the exception that ended the run, "" if none
    calls,            \* remote calls and collaborator calls issued, in order
    root_node, target_node, target_insert_as,   \* arguments of copy_dialog_data
    mode_arg,         \* target_insert_as as the caller passed it
    source_export,    \* source_export['dialog_nodes'], as first exported
    source_nodes,     \* the same list of node objects, as mutated in place
    target_nodes,     \* target_export['dialog_nodes']
    source_root, target_root,    \* results of _find_node
    to_import,        \* list of references (indices) into source_nodes
    to_locate,        \* the queue of ids
    id_to_locate,     \* the id taken from the queue, None before the loop
    del_i,            \* position of the delete loop in to_import
    payload,          \* dialog_nodes of the update request, None before it
    args,             \* load_csv_as_entity_data: argument name -> given?
    clear_existing,   \* load_csv_as_entity_data: the flag passed
    config_data,      \* clear_existing handed to _load_entity_data, None before
    find_id, find_list, find_result    \* _find_node on its own

vars ==
    <<op, pc, error, calls, root_node, target_node, target_insert_as, mode_arg,
      source_export, source_nodes, target_nodes, source_root, target_root,
      to_import, to_locate, id_to_locate, del_i, payload, args, clear_existing,
      config_data, find_id, find_list, find_result>>

copyVars ==
    <<root_node, target_node, target_insert_as, mode_arg, source_export, source_nodes,
      target_nodes, source_root, target_root, to_import, to_locate,
      id_to_locate, del_i, payload>>
loadVars == <<args, clear_existing, config_data>>
findVars == <<find_id, find_list, find_result>>

Call(name, id, result) == [op |-> name, id |-> id, result |-> result]

InitCommon ==
    /\ pc = "start"
    /\ error = ""
    /\ calls = << >>
    /\ source_root = NoMatch
    /\ target_root = NoMatch
    /\ to_import = << >>
    /\ to_locate = << >>
    /\ id_to_locate = None
    /\ del_i = 0
    /\ payload = None
    /\ config_data = None
    /\ find_result = NoMatch

InitCopy ==
    /\ op = "copy"
    /\ root_node \in RootNodeArgs
    /\ target_node \in TargetNodeArgs
    /\ target_insert_as \in ModeArgs
    /\ mode_arg = target_insert_as
    /\ source_export \in SourceExports
    /\ source_nodes = source_export
    /\ target_nodes \in TargetExports
    /\ args = [k \in {} |-> TRUE]
    /\ clear_existing = FALSE
    /\ find_id = None
    /\ find_list = << >>

InitLoad ==
    /\ op = "load"
    /\ args \in [{RequiredKeys[i] : i \in 1..Len(RequiredKeys)} -> BOOLEAN]
    /\ clear_existing \in BOOLEAN
    /\ root_node = None
    /\ target_node = None
    /\ target_insert_as = << >>
    /\ mode_arg = << >>
    /\ source_export = << >>
    /\ source_nodes = << >>
    /\ target_nodes = << >>
    /\ find_id = None
    /\ find_list = << >>

InitFind ==
    /\ op = "find"
    /\ find_id \in {Some(i) : i \in FindIds}
    /\ find_list \in FindLists
    /\ args = [k \in {} |-> TRUE]
    /\ clear_existing = FALSE
    /\ root_node = None
    /\ target_node = None
    /\ target_insert_as = << >>
    /\ mode_arg = << >>
    /\ source_export = << >>
    /\ source_nodes = << >>
    /\ target_nodes = << >>

Init == InitCommon /\ (InitCopy \/ InitLoad \/ InitFind)

\* -------------------------------------------------------- copy_dialog_data
\* target_insert_as = target_insert_as.lower()
Normalise ==
    /\ op = "copy" /\ pc = "start"
    /\ target_insert_as' = Lower(target_insert_as)
    /\ pc' = "export"
    /\ UNCHANGED <<op, error, calls, root_node, target_node, mode_arg, source_export,
                   source_nodes, target_nodes, source_root, target_root,
                   to_import, to_locate, id_to_locate, del_i, payload, loadVars, findVars>>

\* The two workspace exports.
Export ==
    /\ op = "copy" /\ pc = "export"
    /\ calls' = calls \o <<Call("get_workspace", <<"source">>, "ok"),
                            Call("get_workspace", <<"target">>, "ok")>>
    /\ pc' = "locate"
    /\ UNCHANGED <<op, error, copyVars, loadVars, findVars>>

\* Variant of Locate: the check that the root was found is left out.
LocateUnchecked ==
    /\ op = "copy" /\ pc = "locate"
    /\ LET s == _find_node(root_node, source_nodes)
           t == _find_node(target_node, target_nodes)
       IN  IF s.kind = "error" \/ t.kind = "error"
           THEN /\ pc' = "failed" /\ error' = "AttributeError"
                /\ UNCHANGED <<source_root, target_root>>
           ELSE /\ source_root' = s
                /\ target_root' = t
                /\ pc' = "digress" /\ error' = error
    /\ UNCHANGED <<op, calls, root_node, target_node, target_insert_as, mode_arg,
                   source_export, source_nodes, target_nodes, to_import,
                   to_locate, id_to_locate, del_i, payload, loadVars, findVars>>

\* Locate the roots; ValueError when the source root is not found.  An
\* AttributeError of _find_node ends the run where it is raised.
Locate ==
    /\ op = "copy" /\ pc = "locate"
    /\ LET s == _find_node(root_node, source_nodes)
           t == _find_node(target_node, target_nodes)
       IN  IF s.kind = "error"
           THEN /\ pc' = "failed" /\ error' = "AttributeError"
                /\ UNCHANGED <<source_root, target_root>>
           ELSE IF t.kind = "error"
           THEN /\ pc' = "failed" /\ error' = "AttributeError"
                /\ source_root' = s
                /\ UNCHANGED target_root
           ELSE /\ source_root' = s
                /\ target_root' = t
                /\ IF s.kind = "none"
                   THEN pc' = "failed" /\ error' = "ValueError"
                   ELSE pc' = "digress" /\ error' = error
    /\ UNCHANGED <<op, calls, root_node, target_node, target_insert_as, mode_arg,
                   source_export, source_nodes, target_nodes, to_import,
                   to_locate, id_to_locate, del_i, payload, loadVars, findVars>>

\* Variant of ClearsDigress: the test of the target's parent is left out.
ClearsDigressNoParentTest(mode, troot, tnodes) ==
    \/ mode # SIBLING
    \/ troot.kind = "none"

\* The condition under which the digression fields of the root are removed.
ClearsDigress(mode, troot, tnodes) ==
    \/ mode # SIBLING
    \/ troot.kind = "none"
    \/ tnodes[troot.idx].parent # None

Digress ==
    /\ op = "copy" /\ pc = "digress"
    /\ source_nodes' =
          IF ClearsDigress(target_insert_as, target_root, target_nodes)
          THEN [source_nodes EXCEPT ![source_root.idx] =
                    [@ EXCEPT !.digress_out_slots = None,
                              !.digress_out = None,
                              !.digress_in = None]]
          ELSE source_nodes
    /\ pc' = "reparent"
    /\ UNCHANGED <<op, error, calls, root_node, target_node, target_insert_as, mode_arg,
                   source_export, target_nodes, source_root, target_root,
                   to_import, to_locate, id_to_locate, del_i, payload, loadVars, findVars>>

\* Variant of Reparented: 'sibling' places the root under the target itself.
ReparentedUnderTarget(node, mode, troot, tnodes) ==
    IF troot.kind = "none"
    THEN [node EXCEPT !.parent = None, !.previous_sibling = None]
    ELSE IF mode = SIBLING
    THEN [node EXCEPT !.parent = Some(tnodes[troot.idx].dialog_node),
                      !.previous_sibling = Some(tnodes[troot.idx].dialog_node)]
    ELSE IF mode = CHILD
    THEN [node EXCEPT !.parent = Some(tnodes[troot.idx].dialog_node),
                      !.previous_sibling = None]
    ELSE node

\* Variant of Reparented: the last branch is an else, so that every mode
\* other than 'sibling' is treated as 'child'.
ReparentedElseChild(node, mode, troot, tnodes) ==
    IF troot.kind = "none"
    THEN [node EXCEPT !.parent = None, !.previous_sibling = None]
    ELSE IF mode = SIBLING
    THEN [node EXCEPT !.parent = tnodes[troot.idx].parent,
                      !.previous_sibling = Some(tnodes[troot.idx].dialog_node)]
    ELSE [node EXCEPT !.parent = Some(tnodes[troot.idx].dialog_node),
                      !.previous_sibling = None]

\* The root node after the if/elif/elif on the target root and insert type.
Reparented(node, mode, troot, tnodes) ==
    IF troot.kind = "none"
    THEN [node EXCEPT !.parent = None, !.previous_sibling = None]
    ELSE IF mode = SIBLING
    THEN [node EXCEPT !.parent = tnodes[troot.idx].parent,
                      !.previous_sibling = Some(tnodes[troot.idx].dialog_node)]
    ELSE IF mode = CHILD
    THEN [node EXCEPT !.parent = Some(tnodes[troot.idx].dialog_node),
                      !.previous_sibling = None]
    ELSE node

Reparent ==
    /\ op = "copy" /\ pc = "reparent"
    /\ source_nodes' =
          [source_nodes EXCEPT ![source_root.idx] =
              Reparented(@, target_insert_as, target_root, target_nodes)]
    /\ pc' = "seed"
    /\ UNCHANGED <<op, error, calls, root_node, target_node, target_insert_as, mode_arg,
                   source_export, target_nodes, source_root, target_root,
                   to_import, to_locate, id_to_locate, del_i, payload, loadVars, findVars>>

\* The first thing to add is the root node.
Seed ==
    /\ op = "copy" /\ pc = "seed"
    /\ to_import' = Append(to_import, source_root.idx)
    /\ to_locate' = Append(to_locate, source_nodes[source_root.idx].dialog_node)
    /\ pc' = "collect"
    /\ UNCHANGED <<op, error, calls, root_node, target_node, target_insert_as, mode_arg,
                   source_export, source_nodes, target_nodes, source_root,
                   target_root, id_to_locate, del_i, payload, loadVars, findVars>>

\* The nodes of the list that name id as their parent, in list order.
Children(id, nodes) ==
    SelectSeq([i \in 1..Len(nodes) |-> i],
              LAMBDA i : nodes[i].parent = Some(id))

Cap(s) == SubSeq(s, 1, Min(Len(s), MaxImport))

\* The while loop, first half of an iteration: id_to_locate = to_locate.get()
CollectGet ==
    /\ op = "copy" /\ pc = "collect"
    /\ to_locate # << >>
    /\ id_to_locate' = Some(Head(to_locate))
    /\ to_locate' = Tail(to_locate)
    /\ pc' = "scan"
    /\ UNCHANGED <<op, error, calls, root_node, target_node, target_insert_as,
                   mode_arg, source_export, source_nodes, target_nodes,
                   source_root, target_root, to_import, del_i, payload,
                   loadVars, findVars>>

\* Second half: the for loop over the whole export, appending every node
\* that lists id_to_locate as its parent and queueing its id.
CollectScan ==
    /\ op = "copy" /\ pc = "scan"
    /\ LET found == Children(id_to_locate[1], source_nodes)
       IN  /\ to_import' = Cap(to_import \o found)
           /\ to_locate' = to_locate \o
                              [k \in 1..Len(found) |-> source_nodes[found[k]].dialog_node]
    /\ pc' = "collect"
    /\ UNCHANGED <<op, error, calls, root_node, target_node, target_insert_as,
                   mode_arg, source_export, source_nodes, target_nodes,
                   source_root, target_root, id_to_locate, del_i, payload,
                   loadVars, findVars>>

\* The while loop ends on an empty queue.
CollectEnd ==
    /\ op = "copy" /\ pc = "collect"
    /\ to_locate = << >>
    /\ pc' = "delete"
    /\ del_i' = 1
    /\ UNCHANGED <<op, error, calls, root_node, target_node, target_insert_as, mode_arg,
                   source_export, source_nodes, target_nodes, source_root,
                   target_root, to_import, to_locate, payload, id_to_locate, loadVars,
                   findVars>>

\* Variant of DeleteStep: without the try/except, WatsonException ends the run.
DeleteStepRaises ==
    /\ op = "copy" /\ pc = "delete"
    /\ del_i <= Len(to_import)
    /\ \E outcome \in {"ok", "WatsonException"} :
          /\ calls' = Append(calls,
                        Call("delete_dialog_node",
                             source_nodes[to_import[del_i]].dialog_node, outcome))
          /\ pc' = IF outcome = "ok" THEN pc ELSE "failed"
          /\ error' = IF outcome = "ok" THEN error ELSE "WatsonException"
    /\ del_i' = del_i + 1
    /\ UNCHANGED <<op, root_node, target_node, target_insert_as, mode_arg,
                   source_export, source_nodes, target_nodes, source_root,
                   target_root, to_import, to_locate, id_to_locate, payload,
                   loadVars, findVars>>

\* One iteration of the for loop: delete_dialog_node, WatsonException passed.
DeleteStep ==
    /\ op = "copy" /\ pc = "delete"
    /\ del_i <= Len(to_import)
    /\ \E outcome \in {"ok", "WatsonException"} :
          calls' = Append(calls,
                     Call("delete_dialog_node",
                          source_nodes[to_import[del_i]].dialog_node, outcome))
    /\ del_i' = del_i + 1
    /\ UNCHANGED <<op, pc, error, root_node, target_node, target_insert_as, mode_arg,
                   source_export, source_nodes, target_nodes, source_root,
                   target_root, to_import, to_locate, payload, id_to_locate, loadVars,
                   findVars>>

\* The POST with append=true and dialog_nodes = to_import.
Update ==
    /\ op = "copy" /\ pc = "delete"
    /\ del_i > Len(to_import)
    /\ payload' = Some([k \in 1..Len(to_import) |-> source_nodes[to_import[k]]])
    /\ \E ok \in BOOLEAN :
          /\ calls' = Append(calls, Call("update_workspace", <<"append">>,
                                         IF ok THEN "ok" ELSE "not ok"))
          /\ pc' = IF ok THEN "done" ELSE "failed"
          /\ error' = IF ok THEN error ELSE "Exception"
    /\ UNCHANGED <<op, root_node, target_node, target_insert_as, mode_arg,
                   source_export, source_nodes, target_nodes, source_root,
                   target_root, to_import, to_locate, del_i, id_to_locate, loadVars,
                   findVars>>

\* ------------------------------------------------- load_csv_as_entity_data
\* The first required argument left as None, 0 when every one is given.
FirstMissing(a) ==
    LET miss == {i \in 1..Len(RequiredKeys) : ~a[RequiredKeys[i]]}
    IN  IF miss = {} THEN 0 ELSE CHOOSE i \in miss : \A j \in miss : i <= j

\* Validate that values are provided; then set up the conversation class.
Validate ==
    /\ op = "load" /\ pc = "start"
    /\ IF FirstMissing(args) # 0
       THEN pc' = "failed" /\ error' = "ValueError"
       ELSE pc' = "backup" /\ error' = error
    /\ UNCHANGED <<op, calls, copyVars, loadVars, findVars>>

\* get_and_backup_workspace: returns, or raises and ends the run.
Backup ==
    /\ op = "load" /\ pc = "backup"
    /\ \E ok \in BOOLEAN :
          /\ calls' = Append(calls, Call("get_and_backup_workspace", <<"workspace">>,
                                         IF ok THEN "ok" ELSE "raised"))
          /\ pc' = IF ok THEN "read_csv" ELSE "failed"
          /\ error' = IF ok THEN error ELSE "Exception"
    /\ UNCHANGED <<op, copyVars, loadVars, findVars>>

\* pd.read_csv(csv_file, dtype='str', keep_default_na=False)
ReadCsv ==
    /\ op = "load" /\ pc = "read_csv"
    /\ calls' = Append(calls, Call("read_csv", <<"csv_file">>, "ok"))
    /\ pc' = "load_entity"
    /\ UNCHANGED <<op, error, copyVars, loadVars, findVars>>

\* Variant of LoadEntity: config_data keeps the default clear_existing.
LoadEntityDefaultFlag ==
    /\ op = "load" /\ pc = "load_entity"
    /\ config_data' = Some(FALSE)
    /\ calls' = Append(calls, Call("_load_entity_data", <<"workspace">>, "ok"))
    /\ pc' = "done"
    /\ UNCHANGED <<op, error, copyVars, args, clear_existing, findVars>>

\* config_data = {"clear_existing": clear_existing}; _load_entity_data(...)
LoadEntity ==
    /\ op = "load" /\ pc = "load_entity"
    /\ config_data' = Some(clear_existing)
    /\ calls' = Append(calls, Call("_load_entity_data", <<"workspace">>, "ok"))
    /\ pc' = "done"
    /\ UNCHANGED <<op, error, copyVars, args, clear_existing, findVars>>

\* ------------------------------------------------------ _find_node, alone
FindStep ==
    /\ op = "find" /\ pc = "start"
    /\ find_result' = _find_node(find_id, find_list)
    /\ pc' = "done"
    /\ UNCHANGED <<op, error, calls, copyVars, loadVars, find_id, find_list>>

Next ==
    \/ Normalise \/ Export \/ Locate \/ Digress \/ Reparent \/ Seed
    \/ CollectGet \/ CollectScan \/ CollectEnd \/ DeleteStep \/ Update
    \/ Validate \/ Backup \/ ReadCsv \/ LoadEntity
    \/ FindStep

Spec == Init /\ [][Next]_vars

\* Every step of an operation is taken once it can be: the calls of the
\* program are sequential and each returns.
FairSpec == Spec /\ WF_vars(Next)

\* ------------------------------------------------------------------ claims
\* Equality of two texts ignoring letter case, letter by letter.
SameLetter(c, d) ==
    \/ c = d
    \/ c \in DOMAIN UpperToLower /\ UpperToLower[c] = d
    \/ d \in DOMAIN UpperToLower /\ UpperToLower[d] = c
EqIgnoreCase(s, t) ==
    /\ Len(s) = Len(t)
    /\ \A i \in 1..Len(s) : SameLetter(s[i], t[i])

\* A node carries the identifier as its id or as its title.
Carries(node, i) ==
    \/ EqIgnoreCase(node.dialog_node, i)
    \/ node.title # None /\ EqIgnoreCase(node.title[1], i)
\* The same, a node without a title read as titled 'None'.
CarriesAsText(node, i) ==
    \/ Carries(node, i)
    \/ node.title = None /\ EqIgnoreCase(<<"N", "o", "n", "e">>, i)

\* The root and its transitive descendants under the parent relation of the
\* source export as exported (indices into the list).
RECURSIVE Closure(_, _)
Closure(nodes, S) ==
    LET T == S \cup {i \in 1..Len(nodes) :
                       \E j \in S : nodes[i].parent = Some(nodes[j].dialog_node)}
    IN  IF T = S THEN S ELSE Closure(nodes, T)
Subtree == Closure(source_export, {source_root.idx})

RootResolved == op = "copy" /\ source_root.kind = "node"
TargetResolved == target_root.kind = "node"
Root == source_nodes[source_root.idx]
OrigRoot == source_export[source_root.idx]
Target == target_nodes[target_root.idx]
Deletes == SelectSeq(calls, LAMBDA c : c.op = "delete_dialog_node")
Updates == SelectSeq(calls, LAMBDA c : c.op = "update_workspace")
ImportIds == [k \in 1..Len(to_import) |-> source_nodes[to_import[k]].dialog_node]
ImportNodes == [k \in 1..Len(to_import) |-> source_nodes[to_import[k]]]
ModeUnrecognised ==
    ~EqIgnoreCase(mode_arg, SIBLING) /\ ~EqIgnoreCase(mode_arg, CHILD)
AfterDigress ==
    RootResolved /\ pc \in {"reparent", "seed", "collect", "scan", "delete", "done", "failed"}
AfterReparent ==
    RootResolved /\ pc \in {"seed", "collect", "scan", "delete", "done", "failed"}

\* C1: the list to_import built by the collection loop holds the source root
\* and every transitive descendant of it exactly once each and nothing else,
\* the root first and every other node after its parent.  While the loop runs
\* the list is duplicate-free, within the subtree and ordered; once the loop
\* has ended the list holds the whole subtree.
C1_CollectsSubtreeOnce ==
    (RootResolved /\ pc \in {"collect", "scan", "delete", "done", "failed"}) =>
        /\ to_import[1] = source_root.idx
        /\ \A i, j \in 1..Len(to_import) : i # j => to_import[i] # to_import[j]
        /\ {to_import[k] : k \in 1..Len(to_import)} \subseteq Subtree
        /\ \A k \in 2..Len(to_import) :
              \E m \in 1..(k - 1) :
                 source_export[to_import[k]].parent =
                    Some(source_export[to_import[m]].dialog_node)
        /\ pc \in {"delete", "done", "failed"} =>
              {to_import[k] : k \in 1..Len(to_import)} = Subtree

\* C2: after the reparent step the root follows the decision table: target
\* unresolved: parent and previous_sibling absent whatever the mode; target
\* resolved and mode 'sibling' in any letter case: the target's parent and
\* the target's id; target resolved and mode 'child' in any letter case: the
\* target's id and no previous_sibling.
C2_ReparentTable ==
    AfterReparent =>
        /\ ~TargetResolved =>
              Root.parent = None /\ Root.previous_sibling = None
        /\ (TargetResolved /\ EqIgnoreCase(mode_arg, SIBLING)) =>
              /\ Root.parent = Target.parent
              /\ Root.previous_sibling = Some(Target.dialog_node)
        /\ (TargetResolved /\ EqIgnoreCase(mode_arg, CHILD)) =>
              /\ Root.parent = Some(Target.dialog_node)
              /\ Root.previous_sibling = None
C2_Witness ==
    /\ AfterReparent /\ TargetResolved
    /\ mode_arg # SIBLING /\ EqIgnoreCase(mode_arg, SIBLING)
    /\ Target.parent # None
    /\ Root.parent # OrigRoot.parent

\* C3: the root keeps the exported digress_in, digress_out and
\* digress_out_slots exactly when the mode is 'sibling', the target resolved
\* and the target has no parent; in every other case all three are cleared.
KeepsDigress ==
    EqIgnoreCase(mode_arg, SIBLING) /\ TargetResolved /\ Target.parent = None
C3_DigressRule ==
    AfterDigress =>
        IF KeepsDigress
        THEN /\ Root.digress_in = OrigRoot.digress_in
             /\ Root.digress_out = OrigRoot.digress_out
             /\ Root.digress_out_slots = OrigRoot.digress_out_slots
        ELSE /\ Root.digress_in = None
             /\ Root.digress_out = None
             /\ Root.digress_out_slots = None
C3_Witness ==
    /\ AfterDigress /\ KeepsDigress
    /\ OrigRoot.digress_in # None
    /\ Root.digress_in = OrigRoot.digress_in
    /\ Root.digress_out_slots # None

RootUnresolvable ==
    /\ op = "copy"
    /\ \/ root_node = None
       \/ root_node = Some(ROOT)
       \/ \A k \in 1..Len(source_export) :
              ~CarriesAsText(source_export[k], root_node[1])
C6_NoRootNoWrites ==
    RootUnresolvable =>
        /\ pc \in {"start", "export", "locate", "failed"}
        /\ pc = "failed" => error \in {"ValueError", "AttributeError"}
        /\ Deletes = << >> /\ Updates = << >> /\ payload = None
C6_Witness ==
    /\ RootUnresolvable /\ pc = "failed" /\ error = "ValueError"
    /\ root_node = Some(ROOT)
    /\ Len(source_export) >= 2
    /\ Len(calls) = 2

\* C7: in both operations a missing required argument raises a validation
\* error before any remote call: no export, backup, delete or update is
\* issued in that run.
RequiredMissing ==
    \/ op = "load" /\ FirstMissing(args) # 0
    \/ op = "copy" /\ root_node = None
C7_ValidationBeforeCalls ==
    RequiredMissing =>
        /\ calls = << >>
        /\ pc = "failed" => error = "ValueError"

\* C8: the backup comes before the CSV is read and before entity data is
\* applied; a failed backup means no entity load; after a successful backup
\* the entity load is invoked once, with the caller's clear_existing.
LoadCalls == SelectSeq(calls, LAMBDA c : c.op = "_load_entity_data")
C9_UnknownModeKeepsRoot ==
    (RootResolved /\ ModeUnrecognised) =>
        /\ pc = "failed" => payload # None
        /\ payload # None =>
              /\ payload[1][1].parent = OrigRoot.parent
              /\ payload[1][1].previous_sibling = OrigRoot.previous_sibling
\* C9 amended: that holds when target_node resolves; when it does not, the
\* root's parent and previous_sibling are both absent in the payload.
C9_UnknownModeKeepsRootIfTarget ==
    (RootResolved /\ ModeUnrecognised) =>
        /\ pc = "failed" => payload # None
        /\ (payload # None /\ TargetResolved) =>
              /\ payload[1][1].dialog_node = OrigRoot.dialog_node
              /\ payload[1][1].parent = OrigRoot.parent
              /\ payload[1][1].previous_sibling = OrigRoot.previous_sibling
        /\ (payload # None /\ ~TargetResolved) =>
              /\ payload[1][1].dialog_node = OrigRoot.dialog_node
              /\ payload[1][1].parent = None
              /\ payload[1][1].previous_sibling = None
C9_Witness ==
    /\ RootResolved /\ ModeUnrecognised /\ TargetResolved
    /\ pc = "done"
    /\ OrigRoot.parent # None
    /\ payload[1][1].parent = OrigRoot.parent
    /\ Target.parent # OrigRoot.parent
    /\ Some(Target.dialog_node) # OrigRoot.parent

\* C10: whenever the source root resolves, the collection loop ends with an
\* empty queue and the run goes on to the deletes and the update.
C10_CollectionTerminates ==
    (RootResolved /\ pc = "collect") ~>
        (to_locate = << >> /\ pc \in {"done", "failed"} /\ payload # None)

====
